---- MODULE Spec2Model ----
(***************************************************************************)
(* Model of the mini bank of src/Bank.cpp: Account (balance and own        *)
(* history), Bank (account map, global log, id counter) and the operations *)
(* createChecking, deposit, withdraw, transfer and undo.                   *)
(*                                                                         *)
(* Amounts and balances are integer-valued doubles (Inits, Amounts and    *)
(* their sums), on which the double additions, subtractions and            *)
(* comparisons of the source are exact.  The wall-clock field Tx::when is  *)
(* never read by an operation and is left out.                             *)
(* A C++ exception is modelled as a result record with ok = FALSE that     *)
(* carries the exception class and its what() text together with the bank  *)
(* state at the moment of the throw.  A result carries the returned value  *)
(* in val (0 where the operation returns none).                            *)
(***************************************************************************)
EXTENDS Integers, Sequences, FiniteSets, TLC

\* ---- bounds of the model ----
MaxAcc == 2      \* createChecking is offered while fewer accounts exist
MaxHist == 4     \* calls are offered while the histories hold fewer records than this in total

\* ---- inputs ----
Inits == {-1, 0, 100}     \* initial balances offered to createChecking
Amounts == {-1, 0, 40}    \* amounts offered to deposit, withdraw and transfer
Owners == {"Alice"}
Notes == {"manual"}

VARIABLES a, log, next, ret, old, mode
vars == <<a, log, next, ret, old, mode>>

\* ---- struct Tx ----
Tx(ac, t, v, n) == [acc |-> ac, type |-> t, amt |-> v, note |-> n]

\* ---- exceptions and results ----
Throw(st, exc, what) == [st |-> st, ok |-> FALSE, exc |-> exc, err |-> what, val |-> 0]
Return(st) == [st |-> st, ok |-> TRUE, exc |-> "none", err |-> "", val |-> 0]
ReturnVal(st, v) == [st |-> st, ok |-> TRUE, exc |-> "none", err |-> "", val |-> v]

\* ---- struct Account ----
Account(i, o, init) ==
  [id |-> i, owner |-> o, bal |-> init,
   hist |-> IF init > 0 THEN <<Tx(i, "Deposit", init, "initial")>> ELSE <<>>]

\* mutant: the amount check lets zero through
AccountDeposit_AllowsZero(A, v, note) ==
  IF v < 0 THEN Throw(A, "BankError", "deposit>0")
  ELSE Return([A EXCEPT !.bal = @ + v,
                        !.hist = Append(@, Tx(A.id, "Deposit", v, note))])

AccountDeposit(A, v, note) ==
  IF v <= 0 THEN Throw(A, "BankError", "deposit>0")
  ELSE Return([A EXCEPT !.bal = @ + v,
                        !.hist = Append(@, Tx(A.id, "Deposit", v, note))])

AccountWithdraw(A, v, note) ==
  IF v <= 0 THEN Throw(A, "BankError", "withdraw>0")
  ELSE IF A.bal < v THEN Throw(A, "Insufficient", "insufficient")
  ELSE Return([A EXCEPT !.bal = @ - v,
                        !.hist = Append(@, Tx(A.id, "Withdraw", v, note))])

\* ---- struct Bank: B = [a, log, next] ----
Found(B, id) == id \in DOMAIN B.a

NoteSuffix(note) == IF Len(note) > 0 THEN ": " \o note ELSE ""

\* mutant: the synthetic initial deposit is not written to the global log
createChecking_NoLog(B, owner, init) ==
  LET id == B.next
  IN  ReturnVal([B EXCEPT !.next = @ + 1,
                          !.a = (id :> Account(id, owner, init)) @@ B.a], id)

\* mutant: the id counter is read but not advanced
createChecking_ReusesId(B, owner, init) ==
  LET id == B.next
      B1 == [B EXCEPT !.a = (id :> Account(id, owner, init)) @@ B.a]
  IN  ReturnVal(IF init > 0
                THEN [B1 EXCEPT !.log = Append(@, Tx(id, "Deposit", init, "initial"))]
                ELSE B1, id)

createChecking(B, owner, init) ==
  LET id == B.next
      B1 == [B EXCEPT !.next = @ + 1,
                      !.a = (id :> Account(id, owner, init)) @@ B.a]
  IN  ReturnVal(IF init > 0
                THEN [B1 EXCEPT !.log = Append(@, Tx(id, "Deposit", init, "initial"))]
                ELSE B1, id)

\* mutant: the log entry is written before the account has accepted the deposit
deposit_LogsFirst(B, id, v, note) ==
  IF ~Found(B, id) THEN Throw(B, "NotFound", "no account")
  ELSE LET B0 == [B EXCEPT !.log = Append(@, Tx(id, "Deposit", v, note))]
           r == AccountDeposit(B.a[id], v, note)
       IN  IF ~r.ok THEN Throw(B0, r.exc, r.err)
           ELSE Return([B0 EXCEPT !.a[id] = r.st])

deposit(B, id, v, note) ==
  IF ~Found(B, id) THEN Throw(B, "NotFound", "no account")
  ELSE LET r == AccountDeposit(B.a[id], v, note)
       IN  IF ~r.ok THEN Throw(B, r.exc, r.err)
           ELSE Return([B EXCEPT !.a[id] = r.st,
                                 !.log = Append(@, Tx(id, "Deposit", v, note))])

\* mutant: a successful withdrawal is not mirrored in the global log
withdraw_NoLog(B, id, v, note) ==
  IF ~Found(B, id) THEN Throw(B, "NotFound", "no account")
  ELSE LET r == AccountWithdraw(B.a[id], v, note)
       IN  IF ~r.ok THEN Throw(B, r.exc, r.err)
           ELSE Return([B EXCEPT !.a[id] = r.st])

withdraw(B, id, v, note) ==
  IF ~Found(B, id) THEN Throw(B, "NotFound", "no account")
  ELSE LET r == AccountWithdraw(B.a[id], v, note)
       IN  IF ~r.ok THEN Throw(B, r.exc, r.err)
           ELSE Return([B EXCEPT !.a[id] = r.st,
                                 !.log = Append(@, Tx(id, "Withdraw", v, note))])

\* mutant: the two log entries of a transfer are appended in the wrong order
TransferLog_Swapped(from, to, v) ==
  <<[acc |-> to, type |-> "TransferIn", amt |-> v, note |-> "from " \o ToString(from)],
    [acc |-> from, type |-> "TransferOut", amt |-> v, note |-> "to " \o ToString(to)]>>

\* lines 130-131: the two entries a transfer appends to the global log
TransferLog(from, to, v) ==
  <<Tx(from, "TransferOut", v, "to " \o ToString(to)),
    Tx(to, "TransferIn", v, "from " \o ToString(from))>>

transfer(B, from, to, v, note) ==
  IF from = to THEN Throw(B, "BankError", "same account")
  ELSE IF ~Found(B, from) THEN Throw(B, "NotFound", "no account")
  ELSE LET w == AccountWithdraw(B.a[from], v, "to " \o ToString(to) \o NoteSuffix(note))
       IN  IF ~w.ok THEN Throw(B, w.exc, w.err)
           ELSE LET B1 == [B EXCEPT !.a[from] = w.st]
                IN  IF ~Found(B1, to) THEN Throw(B1, "NotFound", "no account")
                    ELSE LET d == AccountDeposit(B1.a[to], v,
                                     "from " \o ToString(from) \o NoteSuffix(note))
                         IN  IF ~d.ok THEN Throw(B1, d.exc, d.err)
                             ELSE Return([B1 EXCEPT
                                    !.a[to] = d.st,
                                    !.log = @ \o TransferLog(from, to, v)])

PopBack(s) == SubSeq(s, 1, Len(s) - 1)

\* mutant: only one entry of an undone transfer pair is removed
PopPair_Once(lg) == SubSeq(lg, 1, Len(lg) - 1)

\* lines 152-153: both entries of the pair are removed
PopPair(lg) == PopBack(PopBack(lg))

\* mutant: the reversing legs run in the other order, source credited first
undoPair_DepositFirst(B, last, prev) ==
  LET to == last.acc
      from == prev.acc
      v == last.amt
  IN  IF ~Found(B, from) THEN Throw(B, "NotFound", "no account")
      ELSE LET d == AccountDeposit(B.a[from], v, "undo transfer")
           IN  IF ~d.ok THEN Throw(B, d.exc, d.err)
               ELSE LET B1 == [B EXCEPT !.a[from] = d.st]
                    IN  IF ~Found(B1, to) THEN Throw(B1, "NotFound", "no account")
                        ELSE LET w == AccountWithdraw(B1.a[to], v, "undo transfer")
                             IN  IF ~w.ok THEN Throw(B1, w.exc, w.err)
                                 ELSE Return([B1 EXCEPT !.a[to] = w.st,
                                                        !.log = PopPair(@)])

\* lines 144-157: the tail is a transfer pair
undoPair(B, last, prev) ==
  LET to == last.acc
      from == prev.acc
      v == last.amt
  IN  IF ~Found(B, to) THEN Throw(B, "NotFound", "no account")
      ELSE LET w == AccountWithdraw(B.a[to], v, "undo transfer")
           IN  IF ~w.ok THEN Throw(B, w.exc, w.err)
               ELSE LET B1 == [B EXCEPT !.a[to] = w.st]
                    IN  IF ~Found(B1, from) THEN Throw(B1, "NotFound", "no account")
                        ELSE LET d == AccountDeposit(B1.a[from], v, "undo transfer")
                             IN  IF ~d.ok THEN Throw(B1, d.exc, d.err)
                                 ELSE Return([B1 EXCEPT !.a[from] = d.st,
                                                        !.log = PopPair(@)])

\* mutant: the compensating action is pushed onto the global log
undoSingle_LogsCompensation(B, last) ==
  IF ~Found(B, last.acc) THEN Throw(B, "NotFound", "no account")
  ELSE LET up == last.type \in {"Deposit", "TransferIn"}
           r == IF up THEN AccountWithdraw(B.a[last.acc], last.amt, "undo")
                ELSE AccountDeposit(B.a[last.acc], last.amt, "undo")
       IN  IF ~r.ok THEN Throw(B, r.exc, r.err)
           ELSE Return([B EXCEPT
                  !.a[last.acc] = r.st,
                  !.log = Append(PopBack(@),
                                 Tx(last.acc, IF up THEN "Withdraw" ELSE "Deposit",
                                    last.amt, "undo"))])

\* mutant: the undone record is deleted from the account's own history
undoSingle_ErasesHistory(B, last) ==
  IF ~Found(B, last.acc) THEN Throw(B, "NotFound", "no account")
  ELSE LET r == IF last.type \in {"Deposit", "TransferIn"}
                THEN AccountWithdraw(B.a[last.acc], last.amt, "undo")
                ELSE AccountDeposit(B.a[last.acc], last.amt, "undo")
       IN  IF ~r.ok THEN Throw(B, r.exc, r.err)
           ELSE Return([B EXCEPT
                  !.a[last.acc] = [r.st EXCEPT !.hist = PopBack(B.a[last.acc].hist)],
                  !.log = PopBack(@)])

\* mutant: the reversal goes in the same direction as the entry it undoes
undoSingle_SameDirection(B, last) ==
  IF ~Found(B, last.acc) THEN Throw(B, "NotFound", "no account")
  ELSE LET r == IF last.type \in {"Deposit", "TransferIn"}
                THEN AccountDeposit(B.a[last.acc], last.amt, "undo")
                ELSE AccountWithdraw(B.a[last.acc], last.amt, "undo")
       IN  IF ~r.ok THEN Throw(B, r.exc, r.err)
           ELSE Return([B EXCEPT !.a[last.acc] = r.st, !.log = PopBack(@)])

\* mutant: the reversed entry is left in the global log
undoSingle_KeepsEntry(B, last) ==
  IF ~Found(B, last.acc) THEN Throw(B, "NotFound", "no account")
  ELSE LET r == IF last.type \in {"Deposit", "TransferIn"}
                THEN AccountWithdraw(B.a[last.acc], last.amt, "undo")
                ELSE AccountDeposit(B.a[last.acc], last.amt, "undo")
       IN  IF ~r.ok THEN Throw(B, r.exc, r.err)
           ELSE Return([B EXCEPT !.a[last.acc] = r.st])

\* lines 159-170: reverse just the last entry
undoSingle(B, last) ==
  IF ~Found(B, last.acc) THEN Throw(B, "NotFound", "no account")
  ELSE LET r == IF last.type \in {"Deposit", "TransferIn"}
                THEN AccountWithdraw(B.a[last.acc], last.amt, "undo")
                ELSE AccountDeposit(B.a[last.acc], last.amt, "undo")
       IN  IF ~r.ok THEN Throw(B, r.exc, r.err)
           ELSE Return([B EXCEPT !.a[last.acc] = r.st, !.log = PopBack(@)])

IsPairTail(lg) ==
  /\ Len(lg) >= 2
  /\ lg[Len(lg)].type = "TransferIn"
  /\ lg[Len(lg) - 1].type = "TransferOut"
  /\ lg[Len(lg) - 1].amt = lg[Len(lg)].amt

\* mutant: the empty-log check reports success
undo_EmptyOk(B) ==
  IF Len(B.log) = 0 THEN Return(B)
  ELSE LET last == B.log[Len(B.log)]
       IN  IF IsPairTail(B.log)
           THEN undoPair(B, last, B.log[Len(B.log) - 1])
           ELSE undoSingle(B, last)

undo(B) ==
  IF Len(B.log) = 0 THEN Throw(B, "none", "nothing to undo")
  ELSE LET last == B.log[Len(B.log)]
       IN  IF IsPairTail(B.log)
           THEN undoPair(B, last, B.log[Len(B.log) - 1])
           ELSE undoSingle(B, last)

\* ---- the program ----
Bank == [a |-> a, log |-> log, next |-> next]

\* account ids offered to the calls: every existing id and one absent id
Ids == 1..next

RECURSIVE SumLen(_, _)
SumLen(f, S) == IF S = {} THEN 0
                ELSE LET x == CHOOSE y \in S : TRUE
                     IN  Len(f[x].hist) + SumLen(f, S \ {x})
TotalHist(B) == SumLen(B.a, DOMAIN B.a)

\* the effect of one call on the bank and the record of its outcome
Apply(op, args, r) ==
  /\ a' = r.st.a
  /\ log' = r.st.log
  /\ next' = r.st.next
  /\ ret' = [op |-> op, args |-> args, ok |-> r.ok, exc |-> r.exc, err |-> r.err,
             val |-> r.val]
  /\ old' = Bank

\* a call of the caller that issues any command
Call(op, args, r) ==
  /\ mode = "any"
  /\ TotalHist(Bank) < MaxHist
  /\ Apply(op, args, r)
  /\ mode' = mode

Init ==
  /\ a = <<>>
  /\ log = <<>>
  /\ next = 1
  /\ ret = [op |-> "none", args |-> <<>>, ok |-> TRUE, exc |-> "none", err |-> "",
            val |-> 0]
  /\ old = [a |-> <<>>, log |-> <<>>, next |-> 1]
  /\ mode = "any"

CmdCreate ==
  \E o \in Owners, init \in Inits :
    /\ next <= MaxAcc
    /\ Call("create", <<init>>, createChecking(Bank, o, init))

CmdDeposit ==
  \E id \in Ids, v \in Amounts, n \in Notes :
    Call("deposit", <<id, v>>, deposit(Bank, id, v, n))

CmdWithdraw ==
  \E id \in Ids, v \in Amounts, n \in Notes :
    Call("withdraw", <<id, v>>, withdraw(Bank, id, v, n))

CmdTransfer ==
  \E from \in Ids, to \in Ids, v \in Amounts, n \in Notes :
    Call("transfer", <<from, to, v>>, transfer(Bank, from, to, v, n))

CmdUndo == Call("undo", <<>>, undo(Bank))

Next == CmdCreate \/ CmdDeposit \/ CmdWithdraw \/ CmdTransfer \/ CmdUndo

Spec == Init /\ [][Next]_vars

\* ---- the program driven with valid input only: non-negative initial
\* ---- balances, transfers between existing accounts
CmdCreateValid ==
  \E o \in Owners, init \in Inits :
    /\ init >= 0
    /\ next <= MaxAcc
    /\ Call("create", <<init>>, createChecking(Bank, o, init))

CmdTransferValid ==
  \E from \in DOMAIN a, to \in DOMAIN a, v \in Amounts, n \in Notes :
    Call("transfer", <<from, to, v>>, transfer(Bank, from, to, v, n))

NextValid == CmdCreateValid \/ CmdDeposit \/ CmdWithdraw \/ CmdTransferValid \/ CmdUndo

SpecValid == Init /\ [][NextValid]_vars

\* ---- valid input, then undo called repeatedly with no other call in
\* ---- between; each undo call runs to completion, so the repetition is fair
UndoOnly ==
  /\ Apply("undo", <<>>, undo(Bank))
  /\ mode' = "undo only"

NextDrain == NextValid \/ UndoOnly

SpecDrain == Init /\ [][NextDrain]_vars /\ WF_vars(UndoOnly)

TypeOK == next \in 1..(MaxAcc + 1) /\ DOMAIN a = 1..(next - 1)

(***************************************************************************)
(* Properties                                                              *)
(***************************************************************************)
Increasing == {"Deposit", "TransferIn"}

RECURSIVE SignedSum(_)
SignedSum(h) ==
  IF Len(h) = 0 THEN 0
  ELSE SignedSum(PopBack(h))
       + (IF h[Len(h)].type \in Increasing THEN h[Len(h)].amt ELSE 0 - h[Len(h)].amt)

SameEntry(t, ac, ty, v) == t.acc = ac /\ t.type = ty /\ t.amt = v

\* C1: in every reachable state every account's balance is >= 0.
C1_BalanceNonNegative == \A id \in DOMAIN a : a[id].bal >= 0

\* C2: in every reachable state each account's balance equals the signed sum
\* of its own history (Deposit, TransferIn added; Withdraw, TransferOut
\* subtracted).
C2_BalanceIsHistorySum == \A id \in DOMAIN a : a[id].bal = SignedSum(a[id].hist)

\* C3: a transfer call that fails leaves every balance, every history and the
\* global log as they were before the call.
C3_FailedTransferNoChange ==
  (ret.op = "transfer" /\ ~ret.ok) => (a = old.a /\ log = old.log)

\* C4: a transfer of v from A to B with A and B existing, A # B, v > 0 and
\* A's balance >= v takes v from A, adds v to B and appends exactly
\* TransferOut(A, v), TransferIn(B, v) to the global log, earlier entries kept.
C4_TransferEffect ==
  \A A \in DOMAIN old.a, B \in DOMAIN old.a, v \in Amounts :
    (/\ ret.op = "transfer" /\ ret.args = <<A, B, v>>
     /\ A # B /\ v > 0 /\ old.a[A].bal >= v)
    => /\ ret.ok
       /\ a[A].bal = old.a[A].bal - v
       /\ a[B].bal = old.a[B].bal + v
       /\ Len(log) = Len(old.log) + 2
       /\ SubSeq(log, 1, Len(old.log)) = old.log
       /\ SameEntry(log[Len(log) - 1], A, "TransferOut", v)
       /\ SameEntry(log[Len(log)], B, "TransferIn", v)
C4_TransferDone ==
  /\ ret.op = "transfer" /\ ret.ok
  /\ Len(ret.args) = 3 /\ ret.args[1] \in DOMAIN old.a /\ ret.args[2] \in DOMAIN old.a
  /\ old.a[ret.args[1]].bal >= ret.args[3]

\* C5: transfer entries occur in the global log only as adjacent pairs: each
\* TransferOut is immediately followed by a TransferIn of equal amount for a
\* different account and each TransferIn is immediately preceded by such a
\* TransferOut.
MatchedPair(o, i) ==
  /\ o.type = "TransferOut" /\ i.type = "TransferIn"
  /\ o.amt = i.amt /\ o.acc # i.acc
C5_TransfersPaired ==
  \A k \in 1..Len(log) :
    /\ log[k].type = "TransferOut" => (k < Len(log) /\ MatchedPair(log[k], log[k + 1]))
    /\ log[k].type = "TransferIn" => (k > 1 /\ MatchedPair(log[k - 1], log[k]))
C5_UndoWithPairInLog ==
  /\ ret.op = "undo"
  /\ \E k \in 1..Len(log) : log[k].type = "TransferOut"

\* C6: undo called immediately after a successful transfer of v from A to B
\* succeeds, restores both balances to their pre-transfer values and leaves
\* the global log as it was before the transfer.
C6_UndoAfterTransfer ==
  [][(ret.op = "transfer" /\ ret.ok /\ ret'.op = "undo")
     => /\ ret'.ok
        /\ a'[ret.args[1]].bal = old.a[ret.args[1]].bal
        /\ a'[ret.args[2]].bal = old.a[ret.args[2]].bal
        /\ log' = old.log]_vars

\* C7: undo called immediately after a successful deposit of v to X succeeds,
\* restores X's balance to its pre-deposit value and leaves the global log as
\* it was before the deposit.
C7_UndoAfterDeposit ==
  [][(ret.op = "deposit" /\ ret.ok /\ ret'.op = "undo")
     => /\ ret'.ok
        /\ a'[ret.args[1]].bal = old.a[ret.args[1]].bal
        /\ log' = old.log]_vars

\* C8: whenever undo fails, no entry is removed from the global log and no
\* balance or history is changed (no reversing leg is left applied alone).
C8_FailedUndoNoChange ==
  (ret.op = "undo" /\ ~ret.ok) => (a = old.a /\ log = old.log)
C8_FailedPairUndo == ret.op = "undo" /\ ~ret.ok /\ IsPairTail(old.log)

\* C9: undo on an empty global log fails with "nothing to undo" and changes
\* no balance, no history and not the log.
C9_UndoEmptyLog ==
  (ret.op = "undo" /\ Len(old.log) = 0)
  => (~ret.ok /\ ret.err = "nothing to undo" /\ a = old.a /\ log = old.log)
C9_UndoOnEmptyDone == ret.op = "undo" /\ Len(old.log) = 0 /\ DOMAIN a # {}

\* C10: a successful undo never appends to the global log: the log after it
\* is the log before it without its last entry (single case) or its last two
\* entries (transfer pair); the compensating records are appended only to the
\* affected accounts' own histories.
Compensated(id, ty, v, note) ==
  a[id].hist = Append(old.a[id].hist, Tx(id, ty, v, note))
C10_UndoOnlyPops ==
  (ret.op = "undo" /\ ret.ok) =>
    LET n == Len(old.log)
        last == old.log[n]
    IN  IF IsPairTail(old.log)
        THEN /\ log = SubSeq(old.log, 1, n - 2)
             /\ Compensated(last.acc, "Withdraw", last.amt, "undo transfer")
             /\ Compensated(old.log[n - 1].acc, "Deposit", last.amt, "undo transfer")
             /\ \A id \in DOMAIN a \ {last.acc, old.log[n - 1].acc} :
                  a[id] = old.a[id]
        ELSE /\ log = SubSeq(old.log, 1, n - 1)
             /\ Compensated(last.acc,
                            IF last.type \in Increasing THEN "Withdraw" ELSE "Deposit",
                            last.amt, "undo")
             /\ \A id \in DOMAIN a \ {last.acc} : a[id] = old.a[id]
C10_PairUndone == ret.op = "undo" /\ ret.ok /\ IsPairTail(old.log) /\ Len(old.log) > 2

\* C11: createChecking called with a negative initial balance fails: no
\* account is created, no identifier is consumed and the global log is
\* unchanged.
C11_NegativeInitRejected ==
  (ret.op = "create" /\ ret.args[1] < 0)
  => (~ret.ok /\ a = old.a /\ next = old.next /\ log = old.log)

\* C12: a withdraw of more than the account's current balance fails with
\* Insufficient and leaves the account's balance and history and the global
\* log unchanged.
C12_OverdrawRejected ==
  (/\ ret.op = "withdraw" /\ ret.args[1] \in DOMAIN old.a
   /\ ret.args[2] > old.a[ret.args[1]].bal)
  => (~ret.ok /\ ret.exc = "Insufficient" /\ a = old.a /\ log = old.log)

\* C13: a deposit of an amount <= 0 to an existing account fails with
\* BankError "deposit>0" and leaves the account's balance and history and the
\* global log unchanged.
C13_NonPositiveDepositRejected ==
  (ret.op = "deposit" /\ ret.args[1] \in DOMAIN old.a /\ ret.args[2] <= 0)
  => (/\ ~ret.ok /\ ret.exc = "BankError" /\ ret.err = "deposit>0"
      /\ a = old.a /\ log = old.log)
C13_NonPositiveDepositDone ==
  ret.op = "deposit" /\ ret.args[1] \in DOMAIN old.a /\ ret.args[2] <= 0

IsPrefix(s, t) == Len(s) <= Len(t) /\ SubSeq(t, 1, Len(s)) = s

\* C14: per-account history is append-only across every call, successful or
\* failed: each account's history before the call is a prefix of its history
\* after the call, and no account disappears.
C14_HistoryAppendOnly ==
  \A id \in DOMAIN old.a :
    id \in DOMAIN a /\ IsPrefix(old.a[id].hist, a[id].hist)
C14_UndoGrewHistory ==
  /\ ret.op = "undo" /\ ret.ok
  /\ \E id \in DOMAIN old.a : Len(a[id].hist) > Len(old.a[id].hist) /\ Len(old.a[id].hist) > 0

\* C16: a successful Bank deposit or withdraw appends exactly one record to
\* the target account's history and exactly one mirrored record (same
\* account, kind, amount) at the tail of the global log, all other accounts
\* and earlier log entries unchanged; a failed one writes no log entry and
\* creates or changes no account.
C16_SingleAccountFrame ==
  (ret.op \in {"deposit", "withdraw"}) =>
    LET id == ret.args[1]
        v == ret.args[2]
        ty == IF ret.op = "deposit" THEN "Deposit" ELSE "Withdraw"
    IN  IF ret.ok
        THEN /\ id \in DOMAIN old.a /\ DOMAIN a = DOMAIN old.a
             /\ Len(a[id].hist) = Len(old.a[id].hist) + 1
             /\ IsPrefix(old.a[id].hist, a[id].hist)
             /\ SameEntry(a[id].hist[Len(a[id].hist)], id, ty, v)
             /\ Len(log) = Len(old.log) + 1
             /\ IsPrefix(old.log, log)
             /\ SameEntry(log[Len(log)], id, ty, v)
             /\ \A o \in DOMAIN a \ {id} : a[o] = old.a[o]
        ELSE a = old.a /\ log = old.log /\ next = old.next
C16_WithdrawDone ==
  ret.op = "withdraw" /\ ret.ok /\ Len(old.log) > 0 /\ Cardinality(DOMAIN a) > 1

\* C17: when the global log is non-empty and its tail is not a transfer pair,
\* a successful undo reverses just the last entry: a Deposit or TransferIn
\* amount is withdrawn from, a Withdraw or TransferOut amount deposited to,
\* that entry's account; exactly that entry leaves the log; every other
\* account keeps its balance and history.
C17_SingleUndoEffect ==
  (ret.op = "undo" /\ ret.ok /\ Len(old.log) > 0 /\ ~IsPairTail(old.log)) =>
    LET n == Len(old.log)
        last == old.log[n]
        x == last.acc
    IN  /\ a[x].bal = IF last.type \in Increasing
                      THEN old.a[x].bal - last.amt
                      ELSE old.a[x].bal + last.amt
        /\ log = SubSeq(old.log, 1, n - 1)
        /\ \A id \in DOMAIN a \ {x} :
             a[id].bal = old.a[id].bal /\ a[id].hist = old.a[id].hist
C17_WithdrawUndone ==
  /\ ret.op = "undo" /\ ret.ok /\ Len(old.log) > 0
  /\ old.log[Len(old.log)].type = "Withdraw"

\* C15: account identifiers are unique and never reused: createChecking
\* returns strictly increasing ids starting at 1, each different from every
\* id returned before, no call replaces or removes an existing account, and
\* the id counter is greater than every existing account's id.
C15_IdsUniqueIncreasing ==
  /\ \A id \in DOMAIN a : a[id].id = id /\ id < next
  /\ next >= old.next
  /\ \A id \in DOMAIN old.a :
       id \in DOMAIN a /\ a[id].id = old.a[id].id /\ a[id].owner = old.a[id].owner
  /\ (ret.op = "create") =>
       /\ ret.ok /\ ret.val = old.next /\ next = old.next + 1
       /\ ret.val \notin DOMAIN old.a
       /\ \A id \in DOMAIN old.a : id < ret.val
       /\ DOMAIN a = DOMAIN old.a \cup {ret.val}
       /\ (DOMAIN old.a = {}) => ret.val = 1
  /\ (ret.op # "create") => DOMAIN a = DOMAIN old.a /\ next = old.next
C15_SecondCreated == ret.op = "create" /\ ret.val = 2 /\ DOMAIN old.a = {1}

RECURSIVE LogSum(_, _)
LogSum(lg, id) ==
  IF Len(lg) = 0 THEN 0
  ELSE LET t == lg[Len(lg)]
       IN  LogSum(PopBack(lg), id)
           + (IF t.acc # id THEN 0
              ELSE IF t.type \in Increasing THEN t.amt ELSE 0 - t.amt)

Drained ==
  /\ Len(log) = 0
  /\ ret.op = "undo" /\ ~ret.ok /\ ret.err = "nothing to undo"
  /\ \A id \in DOMAIN a : a[id].bal = 0

====
